---- MODULE Spec2Model ----
(***************************************************************************)
(* Model of the wheecious.kener "monitor" module: one reconciliation pass  *)
(* (main) builds a payload from the module parameters (build_payload),     *)
(* looks the monitor up by tag (make_api_request GET), compares            *)
(* (is_changed) and issues POST, PUT or DELETE.                            *)
(*                                                                         *)
(* Modelling note.  main calls build_payload(module.params) while          *)
(* build_payload's parameter is named module and is dereferenced as        *)
(* module.params and module.fail_json.  The model binds build_payload's    *)
(* params to the parameter dictionary main hands over and its fail_json to *)
(* AnsibleModule.fail_json, which is what every other line of main and of  *)
(* make_api_request relies on.                                             *)
(***************************************************************************)
EXTENDS Integers, Sequences, FiniteSets, TLC

(***************************************************************************)
(* Bounds of the model.                                                    *)
(***************************************************************************)
\* number of reconciliation passes (invocations of main) in one behaviour
MaxPasses == 2
\* longest host list among the inputs of build_payload
MaxHosts == 2

(***************************************************************************)
(* Python values of the parameter dictionary and of JSON documents.  Every *)
(* scalar is a record of one shape, so that values of different Python     *)
(* types can be compared (Python's == between a str and an int is False).  *)
(***************************************************************************)
None == [k |-> "null", s |-> "", n |-> 0, l |-> <<>>]
PyStr(x) == [k |-> "str", s |-> x, n |-> 0, l |-> <<>>]
PyInt(x) == [k |-> "int", s |-> "", n |-> x, l |-> <<>>]
PyList(x) == [k |-> "list", s |-> "", n |-> 0, l |-> x]
\* a punctuation token of a JSON text
Tok(x) == [k |-> "punct", s |-> x, n |-> 0, l |-> <<>>]

\* Python truthiness: None, 0, "" and [] are falsy
Truthy(v) ==
    CASE v.k = "null" -> FALSE
      [] v.k = "str" -> v.s # ""
      [] v.k = "int" -> v.n # 0
      [] v.k = "list" -> v.l # <<>>
      [] OTHER -> TRUE

(***************************************************************************)
(* json.dumps / json.loads on a type_data dictionary (a function from key  *)
(* strings to values).  A JSON text is a sequence of tokens.               *)
(***************************************************************************)
\* keys in the order the dictionaries are built (argument_spec order)
KeyOrder ==
    << "hosts", "url", "method", "timeout", "host", "port",
       "degradedRemainingHours", "downRemainingHours",
       "lookupRecord", "nameServer", "matchType", "values" >>

RECURSIVE dumpsItems(_, _)
dumpsItems(l, i) ==
    IF i > Len(l) THEN <<>>
    ELSE (IF i > 1 THEN <<Tok(",")>> ELSE <<>>) \o <<PyStr(l[i])>> \o dumpsItems(l, i + 1)

dumpsValue(v) ==
    IF v.k = "list" THEN <<Tok("[")>> \o dumpsItems(v.l, 1) \o <<Tok("]")>>
    ELSE <<v>>

RECURSIVE dumpsMembers(_, _, _)
dumpsMembers(d, i, first) ==
    IF i > Len(KeyOrder) THEN <<>>
    ELSE IF KeyOrder[i] \notin DOMAIN d THEN dumpsMembers(d, i + 1, first)
    ELSE (IF first THEN <<>> ELSE <<Tok(",")>>)
         \o <<PyStr(KeyOrder[i]), Tok(":")>> \o dumpsValue(d[KeyOrder[i]])
         \o dumpsMembers(d, i + 1, FALSE)

dumps(d) == <<Tok("{")>> \o dumpsMembers(d, 1, TRUE) \o <<Tok("}")>>

EmptyDict == [x \in {} |-> None]
ParseFail == [ok |-> FALSE, v |-> EmptyDict, next |-> 0]

\* the items of a list from position i (just after "[" or ","), up to "]"
RECURSIVE loadsItems(_, _, _)
loadsItems(s, i, acc) ==
    IF i > Len(s) THEN ParseFail
    ELSE IF s[i] = Tok("]") /\ acc = <<>> THEN [ok |-> TRUE, v |-> acc, next |-> i + 1]
    ELSE IF s[i].k # "str" \/ i + 1 > Len(s) THEN ParseFail
    ELSE IF s[i + 1] = Tok("]")
         THEN [ok |-> TRUE, v |-> Append(acc, s[i].s), next |-> i + 2]
    ELSE IF s[i + 1] = Tok(",") THEN loadsItems(s, i + 2, Append(acc, s[i].s))
    ELSE ParseFail

\* one value at position i: a scalar token or a list
loadsValue(s, i) ==
    IF i > Len(s) THEN ParseFail
    ELSE IF s[i] = Tok("[")
         THEN LET r == loadsItems(s, i + 1, <<>>)
              IN  IF r.ok THEN [ok |-> TRUE, v |-> PyList(r.v), next |-> r.next]
                  ELSE ParseFail
    ELSE IF s[i].k \in {"str", "int", "null"}
         THEN [ok |-> TRUE, v |-> s[i], next |-> i + 1]
    ELSE ParseFail

\* the members of an object from position i (just after "{" or ","), up to "}"
RECURSIVE loadsMembers(_, _, _)
loadsMembers(s, i, acc) ==
    IF i + 2 > Len(s) THEN ParseFail
    ELSE IF s[i].k # "str" \/ s[i + 1] # Tok(":") THEN ParseFail
    ELSE LET r == loadsValue(s, i + 2)
         IN  IF ~r.ok \/ r.next > Len(s) THEN ParseFail
             ELSE IF s[r.next] = Tok("}")
                  THEN IF r.next = Len(s)
                       THEN [ok |-> TRUE, v |-> (s[i].s :> r.v) @@ acc, next |-> r.next + 1]
                       ELSE ParseFail
             ELSE IF s[r.next] = Tok(",")
                  THEN loadsMembers(s, r.next + 1, (s[i].s :> r.v) @@ acc)
             ELSE ParseFail

\* json.loads of a remote type_data field: raises (ok = FALSE) on None and on a
\* text that is no JSON object
loads(t) ==
    IF t.isnull THEN ParseFail
    ELSE IF Len(t.text) < 2 \/ t.text[1] # Tok("{") THEN ParseFail
    ELSE IF t.text = <<Tok("{"), Tok("}")>> THEN [ok |-> TRUE, v |-> EmptyDict, next |-> 3]
    ELSE loadsMembers(t.text, 2, EmptyDict)

\* the remote store's encoding of a type_data document
Encoded(d) == [isnull |-> FALSE, text |-> dumps(d)]
NullText == [isnull |-> TRUE, text |-> <<>>]

(***************************************************************************)
(* monitor_utils.py                                                        *)
(***************************************************************************)
HostProbeTypes == {"TCP", "PING"}

required_fields ==
    [ API |-> <<"url", "method", "timeout">>,
      SSL |-> <<"host", "port", "degradedRemainingHours", "downRemainingHours">>,
      DNS |-> <<"lookupRecord", "nameServer", "matchType", "values">> ]

\* the first field of fs, from position i, that params['monitor'].get(field)
\* finds missing or falsy; "" when there is none
RECURSIVE FirstMissing(_, _, _)
FirstMissing(monitor, fs, i) ==
    IF i > Len(fs) THEN ""
    ELSE IF fs[i] \notin DOMAIN monitor \/ ~Truthy(monitor[fs[i]]) THEN fs[i]
    ELSE FirstMissing(monitor, fs, i + 1)

BasePayload(params) ==
    [ name |-> params.name, tag |-> params.tag, status |-> params.status,
      cron |-> params.cron, category_name |-> params.category_name,
      monitor_type |-> params.monitor_type ]

\* build_payload without the loop over required_fields
build_payload_unchecked(params) ==
    IF params.monitor_type \in HostProbeTypes
    THEN [ok |-> TRUE, msg |-> <<>>,
          payload |-> BasePayload(params) @@ [type_data |-> [hosts |-> params.hosts]]]
    ELSE [ok |-> TRUE, msg |-> <<>>,
          payload |-> BasePayload(params) @@ [type_data |-> params.monitor]]

\* build_payload: ok with the payload, or the fail_json message
build_payload(params) ==
    IF params.monitor_type \in HostProbeTypes
    THEN [ok |-> TRUE, msg |-> <<>>,
          payload |-> BasePayload(params) @@ [type_data |-> [hosts |-> params.hosts]]]
    ELSE IF params.monitor_type \in DOMAIN required_fields
    THEN LET missing == FirstMissing(params.monitor, required_fields[params.monitor_type], 1)
         IN  IF missing # ""
             THEN [ok |-> FALSE, msg |-> <<missing, "is required for", params.monitor_type>>,
                   payload |-> BasePayload(params)]
             ELSE [ok |-> TRUE, msg |-> <<>>,
                   payload |-> BasePayload(params) @@ [type_data |-> params.monitor]]
    ELSE [ok |-> TRUE, msg |-> <<>>, payload |-> BasePayload(params)]

(***************************************************************************)
(* common.py: is_changed                                                   *)
(***************************************************************************)
\* the order in which "for param in params" visits the payload's keys
PayloadKeyOrder ==
    <<"name", "tag", "status", "cron", "category_name", "monitor_type", "type_data", "id">>

\* "true", "false", or the exception the loop raises first
RECURSIVE is_changed_from(_, _, _)
is_changed_from(params, existing_params, i) ==
    IF i > Len(PayloadKeyOrder) THEN "false"
    ELSE LET param == PayloadKeyOrder[i]
         IN  IF param \notin DOMAIN params
             THEN is_changed_from(params, existing_params, i + 1)
             ELSE IF param \notin DOMAIN existing_params THEN "KeyError"
             ELSE IF param = "type_data"
                  THEN LET dec == loads(existing_params.type_data)
                       IN  IF ~dec.ok THEN "DecodeError"
                           ELSE IF params.type_data # dec.v THEN "true"
                           ELSE is_changed_from(params, existing_params, i + 1)
             ELSE IF params[param] # existing_params[param] THEN "true"
             ELSE is_changed_from(params, existing_params, i + 1)

\* is_changed comparing type_data with the encoded text, without json.loads
is_changed_raw(params, existing_params) ==
    IF \E k \in DOMAIN params : k \notin DOMAIN existing_params THEN "KeyError"
    ELSE IF \E k \in DOMAIN params \ {"type_data"} : params[k] # existing_params[k]
         THEN "true"
    ELSE IF "type_data" \in DOMAIN params THEN "true"
    ELSE "false"

\* is_changed returning False from inside the loop, after the first key
is_changed_first(params, existing_params) ==
    IF "name" \notin DOMAIN existing_params THEN "KeyError"
    ELSE IF params.name # existing_params.name THEN "true"
    ELSE "false"

\* is_changed swallowing the exception of json.loads
is_changed_lenient(params, existing_params) ==
    IF is_changed_from(params, existing_params, 1) = "DecodeError" THEN "false"
    ELSE is_changed_from(params, existing_params, 1)

is_changed(params, existing_params) == is_changed_from(params, existing_params, 1)

(***************************************************************************)
(* common.py: make_api_request.  status and response are what fetch_url    *)
(* hands back: an HTTP status with a response object, or status -1 and no  *)
(* response when the request never got an answer.                          *)
(***************************************************************************)
NoValue == [isNone |-> TRUE, list |-> <<>>]
ListValue(l) == [isNone |-> FALSE, list |-> l]

\* the statuses fetch_url reports: success, an HTTP error, no answer at all.
\* An answered call carries a JSON body; a call that gets no answer is taken not to
\* have reached the remote service.
Statuses == {200, 500, -1}
HasResponse(status) == status # -1

\* fail: module.fail_json was called; otherwise value is what is returned
make_api_request(status, responseValue) ==
    IF status >= 400 THEN [fail |-> TRUE, value |-> NoValue]
    ELSE IF HasResponse(status) THEN [fail |-> FALSE, value |-> responseValue]
    ELSE [fail |-> FALSE, value |-> NoValue]

\* a lookup result that is never taken as a record found
Found_Never(existing) == FALSE

\* Python truthiness of what the lookup returned ("if existing:")
Found(existing) == ~existing.isNone /\ existing.list # <<>>

(***************************************************************************)
(* The remote service, as the module's calls use it: GET ?tag= returns the *)
(* records with that tag, POST stores the body under a new id, PUT         *)
(* replaces the record with the addressed id, DELETE removes it.  A record *)
(* holds type_data as an encoded text.                                     *)
(***************************************************************************)
ServerRecord(body, id) ==
    [k \in (DOMAIN body) \cup {"id", "type_data"} |->
        IF k = "id" THEN id
        ELSE IF k = "type_data"
             THEN IF "type_data" \in DOMAIN body THEN Encoded(body.type_data) ELSE NullText
        ELSE body[k]]

ServerGet(st, tag) == SelectSeq(st, LAMBDA r : r.tag = tag)
ServerHas(st, id) == \E i \in 1..Len(st) : st[i].id = id
ServerPost(st, body, id) == Append(st, ServerRecord(body, id))
ServerPut(st, id, body) ==
    [i \in 1..Len(st) |-> IF st[i].id = id THEN ServerRecord(body, id) ELSE st[i]]
ServerDelete(st, id) == SelectSeq(st, LAMBDA r : r.id # id)

(***************************************************************************)
(* Inputs: the parameter dictionaries the argument spec accepts.           *)
(***************************************************************************)
Tags == {"t1", "t2"}
MonitorStatuses == {"ACTIVE", "PAUSED"}
\* argument_spec gives state no choices: any string is accepted
StateValues == {"present", "absent", "latest"}

FullMonitor ==
    [ url |-> PyStr("http://x"), method |-> PyStr("GET"), timeout |-> PyInt(3000),
      host |-> PyStr("example.org"), port |-> PyInt(443),
      degradedRemainingHours |-> PyInt(48), downRemainingHours |-> PyInt(24),
      lookupRecord |-> PyStr("A"), nameServer |-> PyStr("8.8.8.8"),
      matchType |-> PyStr("ANY"), values |-> PyList(<<"1.2.3.4">>) ]

\* monitor_type with its hosts and monitor parameters; required_if has checked
\* that hosts is given for TCP and PING
Variants ==
    { [monitor_type |-> "PING", hosts |-> PyList(<<"h1">>), monitor |-> EmptyDict],
      [monitor_type |-> "PING", hosts |-> PyList(<<>>), monitor |-> EmptyDict],
      [monitor_type |-> "API", hosts |-> None, monitor |-> FullMonitor],
      [monitor_type |-> "API", hosts |-> None,
       monitor |-> [FullMonitor EXCEPT !.timeout = PyInt(5000)]],
      [monitor_type |-> "API", hosts |-> None,
       monitor |-> [FullMonitor EXCEPT !.url = None]] }

Descriptors ==
    { [ name |-> "Kener Monitor", tag |-> t, status |-> s, cron |-> "* * * * *",
        category_name |-> "Home", monitor_type |-> v.monitor_type, hosts |-> v.hosts,
        monitor |-> v.monitor, state |-> st ] :
      t \in Tags, s \in MonitorStatuses, v \in Variants, st \in StateValues }

NoParams ==
    [ name |-> "", tag |-> "", status |-> "", cron |-> "", category_name |-> "",
      monitor_type |-> "", hosts |-> None, monitor |-> EmptyDict, state |-> "" ]

(***************************************************************************)
(* State.                                                                  *)
(***************************************************************************)
Procs == {1, 2}

VARIABLES
    store,      \* the remote service's records, in the order GET lists them
    nextId,     \* the id the remote service gives the next created record
    passes,     \* passes started so far
    pc,         \* pc[p]: where process p is in main
    params,     \* params[p]: module.params of p's pass
    payload,    \* payload[p]: main's payload
    existing,   \* existing[p]: what the lookup returned
    results,    \* results[p]: what p's pass emitted through exit_json / fail_json
    calls,      \* calls[p]: the remote calls p's pass issued, in order
    prev,       \* prev[p]: params, results and calls of p's previous pass
    before,     \* before[p]: the remote store when p's pass started
    diff        \* diff[p]: what is_changed returned or raised in p's pass

vars ==
    <<store, nextId, passes, pc, params, payload, existing, results, calls, prev, before,
      diff>>

NoPrev == [valid |-> FALSE, params |-> NoParams, results |-> <<>>, calls |-> <<>>,
           pc |-> "idle"]

Init ==
    /\ store = <<>>
    /\ nextId = 1
    /\ passes = 0
    /\ pc = [p \in Procs |-> "idle"]
    /\ params = [p \in Procs |-> NoParams]
    /\ payload = [p \in Procs |-> EmptyDict]
    /\ existing = [p \in Procs |-> NoValue]
    /\ results = [p \in Procs |-> <<>>]
    /\ calls = [p \in Procs |-> <<>>]
    /\ prev = [p \in Procs |-> NoPrev]
    /\ before = [p \in Procs |-> <<>>]
    /\ diff = [p \in Procs |-> "none"]

Terminal == {"done", "crashed", "returned"}

NoBody == EmptyDict
Call(method, tag, id, body, status) ==
    [method |-> method, tag |-> tag, id |-> id, body |-> body, status |-> status]

ExitJson(changed, msg) == [kind |-> IF changed THEN "changed" ELSE "unchanged", msg |-> msg]
FailJson(msg) == [kind |-> "failed", msg |-> msg]
ApiError(status) == FailJson(<<"API error:", ToString(status)>>)

(***************************************************************************)
(* main                                                                    *)
(***************************************************************************)
\* a process starts a pass: AnsibleModule(...) has validated the parameters
Invoke(p, prm) ==
    /\ pc[p] \in Terminal \cup {"idle"}
    /\ passes < MaxPasses
    /\ passes' = passes + 1
    /\ prev' = [prev EXCEPT ![p] =
                  IF pc[p] = "idle" THEN NoPrev
                  ELSE [valid |-> TRUE, params |-> params[p], results |-> results[p],
                        calls |-> calls[p], pc |-> pc[p]]]
    /\ params' = [params EXCEPT ![p] = prm]
    /\ pc' = [pc EXCEPT ![p] = "start"]
    /\ payload' = [payload EXCEPT ![p] = EmptyDict]
    /\ existing' = [existing EXCEPT ![p] = NoValue]
    /\ results' = [results EXCEPT ![p] = <<>>]
    /\ calls' = [calls EXCEPT ![p] = <<>>]
    /\ before' = [before EXCEPT ![p] = store]
    /\ diff' = [diff EXCEPT ![p] = "none"]
    /\ UNCHANGED <<store, nextId>>

\* main creating the record under state=present without looking it up
Dispatch_CreateBlind(state) ==
    IF state = "present" THEN "post"
    ELSE IF state = "absent" THEN "lookup"
    ELSE "returned"

\* where main goes once the payload is built: the branch on state
Dispatch(state) ==
    IF state = "present" THEN "lookup"
    ELSE IF state = "absent" THEN "lookup"
    ELSE "returned"

\* state = module.params['state']; payload = build_payload(module.params)
Build(p) ==
    /\ pc[p] = "start"
    /\ LET b == build_payload(params[p])
       IN  IF ~b.ok
           THEN /\ results' = [results EXCEPT ![p] = Append(@, FailJson(b.msg))]
                /\ pc' = [pc EXCEPT ![p] = "done"]
                /\ UNCHANGED payload
           ELSE /\ payload' = [payload EXCEPT ![p] = b.payload]
                /\ pc' = [pc EXCEPT ![p] = Dispatch(params[p].state)]
                /\ UNCHANGED results
    /\ UNCHANGED <<store, nextId, passes, params, existing, calls, prev, before, diff>>

\* the last of the looked-up records instead of the first
Target_Last(ex) == ex.list[Len(ex.list)]

\* existing[0]: the record main compares with and addresses
Target(ex) == ex.list[1]

\* a lookup that asks for one fixed tag instead of the payload's
QueryTag_Fixed(pl) == "t1"

\* the tag of the lookup's query string: payload["tag"]
QueryTag(pl) == pl.tag

\* main writing whenever a record is found, whatever is_changed says
Decide_AlwaysPut(state, pl, ex) ==
    IF state = "present"
    THEN IF Found(ex)
         THEN IF is_changed(pl, ex.list[1]) \in {"true", "false"} THEN "put" ELSE "crashed"
         ELSE "post"
    ELSE IF Found(ex) THEN "delete" ELSE "missing"

\* main exiting unchanged when the lookup finds nothing to update
Decide_NoCreate(state, pl, ex) ==
    IF state = "present"
    THEN IF Found(ex)
         THEN LET c == is_changed(pl, ex.list[1])
              IN  IF c = "true" THEN "put"
                  ELSE IF c = "false" THEN "same"
                  ELSE "crashed"
         ELSE "missing"
    ELSE IF Found(ex) THEN "delete" ELSE "missing"

\* main creating a second record where it should replace the one it found
Decide_PostOnDiff(state, pl, ex) ==
    IF state = "present"
    THEN IF Found(ex)
         THEN LET c == is_changed(pl, ex.list[1])
              IN  IF c = "true" THEN "post"
                  ELSE IF c = "false" THEN "same"
                  ELSE "crashed"
         ELSE "post"
    ELSE IF Found(ex) THEN "delete" ELSE "missing"

\* main leaving a found record in place under state=absent
Decide_NoDelete(state, pl, ex) ==
    IF state = "present"
    THEN IF Found(ex)
         THEN LET c == is_changed(pl, ex.list[1])
              IN  IF c = "true" THEN "put"
                  ELSE IF c = "false" THEN "same"
                  ELSE "crashed"
         ELSE "post"
    ELSE "missing"

\* main taking the state=present branch whatever state is
Decide_IgnoreState(state, pl, ex) ==
    IF Found(ex)
    THEN LET c == is_changed(pl, ex.list[1])
         IN  IF c = "true" THEN "put"
             ELSE IF c = "false" THEN "same"
             ELSE "crashed"
    ELSE "post"

\* main creating a record under state=present whatever the lookup returned
Decide_CreateAlways(state, pl, ex) ==
    IF state = "present" THEN "post"
    ELSE IF Found(ex) THEN "delete" ELSE "missing"

\* what main does with the lookup's value: the next call, or the exit
Decide(state, pl, ex) ==
    IF state = "present"
    THEN IF Found(ex)
         THEN LET c == is_changed(pl, Target(ex))
              IN  IF c = "true" THEN "put"
                  ELSE IF c = "false" THEN "same"
                  ELSE "crashed"
         ELSE "post"
    ELSE IF Found(ex) THEN "delete" ELSE "missing"

\* existing = make_api_request(module, 'GET', '/api/monitor?tag=...'), and the
\* statements up to the next remote call or exit
Lookup(p, status) ==
    /\ pc[p] = "lookup"
    /\ LET tag == QueryTag(payload[p])
           r == make_api_request(status, ListValue(ServerGet(store, tag)))
           d == Decide(params[p].state, payload[p], r.value)
       IN  /\ calls' = [calls EXCEPT ![p] = Append(@, Call("GET", tag, 0, NoBody, status))]
           /\ IF r.fail
              THEN /\ results' = [results EXCEPT ![p] = Append(@, ApiError(status))]
                   /\ pc' = [pc EXCEPT ![p] = "done"]
                   /\ UNCHANGED <<existing, payload, diff>>
              ELSE /\ existing' = [existing EXCEPT ![p] = r.value]
                   /\ diff' = [diff EXCEPT ![p] =
                          IF params[p].state = "present" /\ Found(r.value)
                          THEN is_changed(payload[p], Target(r.value)) ELSE @]
                   /\ payload' = [payload EXCEPT ![p] =
                          IF d = "put" THEN [id |-> Target(r.value).id] @@ @ ELSE @]
                   /\ pc' = [pc EXCEPT ![p] =
                          IF d \in {"same", "missing"} THEN "done" ELSE d]
                   /\ results' = [results EXCEPT ![p] =
                          IF d = "same"
                          THEN Append(@, ExitJson(FALSE,
                                 <<"Monitor", tag, "with the same parameters already exists">>))
                          ELSE IF d = "missing"
                          THEN Append(@, ExitJson(FALSE, <<"No monitor", tag, "found">>))
                          ELSE @]
    /\ UNCHANGED <<store, nextId, passes, params, prev, before>>

\* make_api_request(module, 'PUT', '/api/monitor/<id>', data=payload); exit_json
Put(p, status) ==
    /\ pc[p] = "put"
    /\ LET id == Target(existing[p]).id
           r == make_api_request(status, NoValue)
       IN  /\ status = 200 => ServerHas(store, id)
           /\ calls' = [calls EXCEPT ![p] =
                          Append(@, Call("PUT", payload[p].tag, id, payload[p], status))]
           /\ store' = IF status = 200 THEN ServerPut(store, id, payload[p]) ELSE store
           /\ results' = [results EXCEPT ![p] =
                  Append(@, IF r.fail THEN ApiError(status) ELSE ExitJson(TRUE, <<>>))]
    /\ pc' = [pc EXCEPT ![p] = "done"]
    /\ UNCHANGED <<nextId, passes, params, payload, existing, prev, before, diff>>

\* result = make_api_request(module, 'POST', '/api/monitor', data=payload); exit_json
Post(p, status) ==
    /\ pc[p] = "post"
    /\ LET r == make_api_request(status, NoValue)
       IN  /\ calls' = [calls EXCEPT ![p] =
                          Append(@, Call("POST", payload[p].tag, 0, payload[p], status))]
           /\ store' = IF status = 200 THEN ServerPost(store, payload[p], nextId) ELSE store
           /\ nextId' = IF status = 200 THEN nextId + 1 ELSE nextId
           /\ results' = [results EXCEPT ![p] =
                  Append(@, IF r.fail THEN ApiError(status)
                            ELSE ExitJson(TRUE, IF HasResponse(status) THEN <<"created">>
                                                ELSE <<"None">>))]
    /\ pc' = [pc EXCEPT ![p] = "done"]
    /\ UNCHANGED <<passes, params, payload, existing, prev, before, diff>>

\* make_api_request(module, 'DELETE', '/api/monitor/<id>'); exit_json
Delete(p, status) ==
    /\ pc[p] = "delete"
    /\ LET id == Target(existing[p]).id
           tag == payload[p].tag
           r == make_api_request(status, NoValue)
       IN  /\ status = 200 => ServerHas(store, id)
           /\ calls' = [calls EXCEPT ![p] = Append(@, Call("DELETE", tag, id, NoBody, status))]
           /\ store' = IF status = 200 THEN ServerDelete(store, id) ELSE store
           /\ results' = [results EXCEPT ![p] =
                  Append(@, IF r.fail THEN ApiError(status)
                            ELSE ExitJson(TRUE, <<"Monitor", tag, "was removed">>))]
    /\ pc' = [pc EXCEPT ![p] = "done"]
    /\ UNCHANGED <<nextId, passes, params, payload, existing, prev, before, diff>>

Step(p) ==
    \/ Build(p)
    \/ \E status \in Statuses : Lookup(p, status)
    \/ \E status \in Statuses : Put(p, status)
    \/ \E status \in Statuses : Post(p, status)
    \/ \E status \in Statuses : Delete(p, status)

\* passes run one after the other, all by process 1
Next ==
    \/ \E prm \in Descriptors : Invoke(1, prm)
    \/ Step(1)

Spec == Init /\ [][Next]_vars

(***************************************************************************)
(* Vocabulary of the properties.                                           *)
(***************************************************************************)
Methods(cs) == [i \in 1..Len(cs) |-> cs[i].method]
Mutating(c) == c.method \in {"POST", "PUT", "DELETE"}
\* the payload a pass works with, as main builds it
Desired(p) == build_payload(params[p]).payload
\* the lookup of p's pass was answered, and with this list
LookedUp(p) == Len(calls[p]) >= 1 /\ calls[p][1].method = "GET" /\ ~existing[p].isNone
\* a call was answered with an error status
Refused(c) == c.status >= 400
\* a required field of the selected subtype is missing or empty, read off the
\* table required_fields
RequiredMissing(prm) ==
    /\ prm.monitor_type \in DOMAIN required_fields
    /\ \E i \in 1..Len(required_fields[prm.monitor_type]) :
          LET f == required_fields[prm.monitor_type][i]
          IN  f \notin DOMAIN prm.monitor \/ ~Truthy(prm.monitor[f])

\* C2: with state=present, when the lookup finds a record and is_changed reports no
\* difference, the lookup GET is the pass's only remote call (no POST, PUT or DELETE),
\* and the pass returns changed=false with the message noting the existing match.
C2_NoUnnecessaryWrites ==
    \A p \in Procs :
        ( /\ pc[p] \in Terminal
          /\ params[p].state = "present"
          /\ LookedUp(p) /\ Found(existing[p])
          /\ is_changed(Desired(p), existing[p].list[1]) = "false" )
        => /\ Methods(calls[p]) = <<"GET">>
           /\ results[p] = << ExitJson(FALSE,
                 <<"Monitor", params[p].tag, "with the same parameters already exists">>) >>
           /\ store = before[p]

C2_Witness ==
    /\ pc[1] = "done" /\ params[1].state = "present"
    /\ LookedUp(1) /\ Found(existing[1])
    /\ is_changed(Desired(1), existing[1].list[1]) = "false"
    /\ results[1][1].kind = "unchanged"

\* C3: with state=present, when the lookup by tag returns an empty list, the pass
\* issues exactly one POST carrying the normalized payload, no PUT and no DELETE, and
\* returns changed=true (the POST answered with an error status ends the pass in that
\* error instead, see C9).
C3_Create ==
    \A p \in Procs :
        ( /\ pc[p] \in Terminal
          /\ params[p].state = "present"
          /\ LookedUp(p) /\ existing[p].list = <<>> )
        => /\ Methods(calls[p]) = <<"GET", "POST">>
           /\ calls[p][2].body = Desired(p)
           /\ Len(results[p]) = 1
           /\ IF Refused(calls[p][2]) THEN results[p][1].kind = "failed"
              ELSE results[p][1].kind = "changed"
           /\ calls[p][2].status = 200 =>
                 /\ Len(store) = Len(before[p]) + 1
                 /\ SubSeq(store, 1, Len(before[p])) = before[p]
                 /\ \A k \in DOMAIN Desired(p) \ {"type_data"} :
                        store[Len(store)][k] = Desired(p)[k]
                 /\ loads(store[Len(store)].type_data).v = Desired(p).type_data

C3_Witness ==
    /\ pc[1] = "done" /\ params[1].state = "present"
    /\ LookedUp(1) /\ existing[1].list = <<>>
    /\ Methods(calls[1]) = <<"GET", "POST">> /\ calls[1][2].status = 200
    /\ results[1][1].kind = "changed"
    /\ Len(store) = Len(before[1]) + 1

\* C4: with state=present, when the lookup finds a record and is_changed reports a
\* difference, the pass issues exactly one PUT, addressed to the id of the first
\* looked-up record and carrying the full normalized payload, no POST and no DELETE,
\* and returns changed=true (the PUT answered with an error status ends the pass in
\* that error instead, see C9).
C4_Update ==
    \A p \in Procs :
        ( /\ pc[p] \in Terminal
          /\ params[p].state = "present"
          /\ LookedUp(p) /\ Found(existing[p])
          /\ is_changed(Desired(p), existing[p].list[1]) = "true" )
        => /\ Methods(calls[p]) = <<"GET", "PUT">>
           /\ calls[p][2].id = existing[p].list[1].id
           /\ \A k \in DOMAIN Desired(p) : calls[p][2].body[k] = Desired(p)[k]
           /\ Len(results[p]) = 1
           /\ IF Refused(calls[p][2]) THEN results[p][1].kind = "failed"
              ELSE results[p][1].kind = "changed"
           /\ calls[p][2].status = 200 =>
                 /\ Len(store) = Len(before[p])
                 /\ \E i \in 1..Len(store) :
                        /\ store[i].id = existing[p].list[1].id
                        /\ is_changed(Desired(p), store[i]) = "false"

C4_Witness ==
    /\ pc[1] = "done" /\ params[1].state = "present"
    /\ LookedUp(1) /\ Found(existing[1])
    /\ is_changed(Desired(1), existing[1].list[1]) = "true"
    /\ Methods(calls[1]) = <<"GET", "PUT">> /\ calls[1][2].status = 200
    /\ results[1][1].kind = "changed"
    /\ store # before[1]

\* C5: with state=absent, when the lookup by tag finds a record, the pass issues
\* exactly one DELETE addressed to the id of that record, no POST and no PUT, and
\* returns changed=true with a message naming the removed tag (the DELETE answered
\* with an error status ends the pass in that error instead, see C9).
C5_Delete ==
    \A p \in Procs :
        ( /\ pc[p] \in Terminal
          /\ params[p].state = "absent"
          /\ LookedUp(p) /\ Found(existing[p]) )
        => /\ Methods(calls[p]) = <<"GET", "DELETE">>
           /\ calls[p][2].id = existing[p].list[1].id
           /\ Len(results[p]) = 1
           /\ IF Refused(calls[p][2]) THEN results[p][1].kind = "failed"
              ELSE results[p][1] =
                      ExitJson(TRUE, <<"Monitor", params[p].tag, "was removed">>)
           /\ calls[p][2].status = 200 =>
                 /\ Len(store) = Len(before[p]) - 1
                 /\ ~ServerHas(store, existing[p].list[1].id)

C5_Witness ==
    /\ pc[1] = "done" /\ params[1].state = "absent"
    /\ LookedUp(1) /\ Found(existing[1])
    /\ Methods(calls[1]) = <<"GET", "DELETE">> /\ calls[1][2].status = 200
    /\ results[1][1].kind = "changed"
    /\ Len(store) = Len(before[1]) - 1

\* C6: with state=absent, when the lookup by tag returns no record, the pass issues
\* no mutating call, leaves the remote store as it was when the pass started, and
\* returns changed=false.
C6_DeleteWhenAbsent ==
    \A p \in Procs :
        ( /\ pc[p] \in Terminal
          /\ params[p].state = "absent"
          /\ LookedUp(p) /\ existing[p].list = <<>> )
        => /\ \A i \in 1..Len(calls[p]) : ~Mutating(calls[p][i])
           /\ store = before[p]
           /\ Len(results[p]) = 1 /\ results[p][1].kind = "unchanged"

C6_Witness ==
    /\ pc[1] = "done" /\ params[1].state = "absent"
    /\ LookedUp(1) /\ existing[1].list = <<>>
    /\ results[1][1].kind = "unchanged"
    /\ before[1] # <<>>

\* C7: for state=present and for state=absent alike, when a required field of the
\* selected subtype is missing, the pass ends in an error result and issues no
\* remote call at all, not even the lookup GET.
C7_ValidationFailsFast ==
    \A p \in Procs :
        (pc[p] \notin {"idle", "start"} /\ RequiredMissing(params[p]))
        => /\ pc[p] = "done"
           /\ calls[p] = <<>>
           /\ Len(results[p]) = 1 /\ results[p][1].kind = "failed"
           /\ store = before[p]

C7_Witness ==
    /\ pc[1] = "done" /\ RequiredMissing(params[1])
    /\ params[1].state = "absent"
    /\ before[1] # <<>> /\ ServerGet(before[1], params[1].tag) # <<>>
    /\ results[1][1].kind = "failed"

\* C1: two consecutive passes with the same descriptor, state=present, no write but
\* the reconciler's own in between: when the first pass returned changed=true or
\* changed=false and no call of the second is answered with an error status, the
\* second pass returns changed=false and issues no POST, PUT or DELETE.
C1_Idempotence ==
    \A p \in Procs :
        ( /\ pc[p] \in Terminal
          /\ prev[p].valid /\ prev[p].params = params[p]
          /\ params[p].state = "present"
          /\ Len(prev[p].results) = 1
          /\ prev[p].results[1].kind \in {"changed", "unchanged"}
          /\ \A i \in 1..Len(calls[p]) : ~Refused(calls[p][i]) )
        => /\ Len(results[p]) = 1 /\ results[p][1].kind = "unchanged"
           /\ \A i \in 1..Len(calls[p]) : ~Mutating(calls[p][i])

\* every call of both passes was answered by the remote service
AllAnswered(p) ==
    /\ \A i \in 1..Len(calls[p]) : HasResponse(calls[p][i].status)
    /\ \A i \in 1..Len(prev[p].calls) : HasResponse(prev[p].calls[i].status)

\* C1 restricted to passes whose calls were all answered: the second pass returns
\* changed=false and writes nothing.
C1_IdempotenceWhenAnswered ==
    \A p \in Procs :
        ( /\ pc[p] \in Terminal
          /\ prev[p].valid /\ prev[p].params = params[p]
          /\ params[p].state = "present"
          /\ Len(prev[p].results) = 1
          /\ prev[p].results[1].kind \in {"changed", "unchanged"}
          /\ \A i \in 1..Len(calls[p]) : ~Refused(calls[p][i])
          /\ AllAnswered(p) )
        => /\ Len(results[p]) = 1 /\ results[p][1].kind = "unchanged"
           /\ \A i \in 1..Len(calls[p]) : ~Mutating(calls[p][i])

\* C9: if any remote call of a pass fails (an error status, or no response at all),
\* that call is the pass's last, and the pass ends with an error result, never with
\* changed=true or changed=false.
C9_TransportFailuresSurface ==
    \A p \in Procs :
        pc[p] \in Terminal =>
            \A i \in 1..Len(calls[p]) :
                calls[p][i].status # 200 =>
                    /\ i = Len(calls[p])
                    /\ Len(results[p]) = 1 /\ results[p][1].kind = "failed"

\* C9, for the error statuses alone: a call answered with a status >= 400 is the
\* pass's last and the pass ends with an error result.
C9_ErrorStatusSurfaces ==
    \A p \in Procs :
        pc[p] \in Terminal =>
            \A i \in 1..Len(calls[p]) :
                Refused(calls[p][i]) =>
                    /\ i = Len(calls[p])
                    /\ Len(results[p]) = 1 /\ results[p][1].kind = "failed"

\* C10: every pass, whatever value of state the argument spec accepted, ends having
\* emitted exactly one result.
C10_ExactlyOneResult ==
    \A p \in Procs : pc[p] \in Terminal => Len(results[p]) = 1

\* C10, for the two documented values of state: the pass ends having emitted exactly
\* one result.
C10_OneResultForDocumentedStates ==
    \A p \in Procs :
        (pc[p] \in Terminal /\ params[p].state \in {"present", "absent"})
        => Len(results[p]) = 1

(***************************************************************************)
(* build_payload on its own: every subtype, with the monitor dictionary    *)
(* complete or with one or two of its fields missing or empty.             *)
(***************************************************************************)
BuildHostNames == {"h1", "h2"}
BuildHostLists ==
    {PyList(l) : l \in UNION {[1..n -> BuildHostNames] : n \in 0..MaxHosts}}

Zero(v) ==
    IF v.k = "str" THEN PyStr("") ELSE IF v.k = "int" THEN PyInt(0) ELSE PyList(<<>>)
KnockOut(ms) ==
    UNION { {[m EXCEPT ![f] = None], [m EXCEPT ![f] = Zero(FullMonitor[f])]} :
            m \in ms, f \in DOMAIN FullMonitor }
BuildMonitors == {FullMonitor, EmptyDict} \cup KnockOut({FullMonitor})
                    \cup KnockOut(KnockOut({FullMonitor}))

BuildInputs ==
    { [ name |-> "Kener Monitor", tag |-> "t1", status |-> "ACTIVE", cron |-> "* * * * *",
        category_name |-> "Home", monitor_type |-> mt, hosts |-> h,
        monitor |-> EmptyDict, state |-> st ] :
      mt \in HostProbeTypes, h \in BuildHostLists, st \in {"present", "absent"} }
    \cup
    { [ name |-> "Kener Monitor", tag |-> "t1", status |-> "ACTIVE", cron |-> "* * * * *",
        category_name |-> "Home", monitor_type |-> mt, hosts |-> None,
        monitor |-> m, state |-> st ] :
      mt \in DOMAIN required_fields, m \in BuildMonitors, st \in {"present", "absent"} }

InitBuild ==
    /\ store = <<>>
    /\ nextId = 1
    /\ passes = 1
    /\ pc = [p \in Procs |-> IF p = 1 THEN "start" ELSE "idle"]
    /\ \E prm \in BuildInputs : params = [p \in Procs |-> IF p = 1 THEN prm ELSE NoParams]
    /\ payload = [p \in Procs |-> EmptyDict]
    /\ existing = [p \in Procs |-> NoValue]
    /\ results = [p \in Procs |-> <<>>]
    /\ calls = [p \in Procs |-> <<>>]
    /\ prev = [p \in Procs |-> NoPrev]
    /\ before = [p \in Procs |-> <<>>]
    /\ diff = [p \in Procs |-> "none"]

NextBuild == Build(1)

SpecBuild == InitBuild /\ [][NextBuild]_vars

\* the fields the table of subtypes requires, in the table's order
TableFields(mt) == IF mt \in HostProbeTypes THEN <<"hosts">> ELSE required_fields[mt]
TableValue(prm, f) ==
    IF prm.monitor_type \in HostProbeTypes THEN prm.hosts
    ELSE IF f \in DOMAIN prm.monitor THEN prm.monitor[f] ELSE None
TableMissing(prm) ==
    {i \in 1..Len(TableFields(prm.monitor_type)) :
        ~Truthy(TableValue(prm, TableFields(prm.monitor_type)[i]))}
Least(S) == CHOOSE i \in S : \A j \in S : i <= j

\* C8: for every subtype of the table, whenever a required field of the selected
\* subtype is absent or empty, build_payload fails with the validation error that
\* names the first such field.
C8_SubtypeGating ==
    \A p \in Procs :
        (pc[p] \notin {"idle", "start"} /\ TableMissing(params[p]) # {})
        => results[p] =
             << FailJson(<< TableFields(params[p].monitor_type)[Least(TableMissing(params[p]))],
                            "is required for", params[p].monitor_type >>) >>

\* C8, for the subtypes of required_fields (API, SSL, DNS): build_payload fails
\* naming the first missing or empty required field.
C8_GatingOfRequiredFields ==
    \A p \in Procs :
        ( /\ pc[p] \notin {"idle", "start"}
          /\ params[p].monitor_type \notin HostProbeTypes
          /\ TableMissing(params[p]) # {} )
        => results[p] =
             << FailJson(<< TableFields(params[p].monitor_type)[Least(TableMissing(params[p]))],
                            "is required for", params[p].monitor_type >>) >>

(***************************************************************************)
(* is_changed on its own: a payload against one remote record that equals  *)
(* it, differs from it in one parameter, lacks a key, carries a key of its *)
(* own, or holds a type_data that is null or no JSON object.               *)
(***************************************************************************)
TwoValues == PyList(<<"1.2.3.4", "5.6.7.8">>)
TwoValuesSwapped == PyList(<<"5.6.7.8", "1.2.3.4">>)

DiffVariants ==
    { [monitor_type |-> "PING", hosts |-> PyList(<<"h1", "h2">>), monitor |-> EmptyDict],
      [monitor_type |-> "PING", hosts |-> PyList(<<"h2", "h1">>), monitor |-> EmptyDict],
      [monitor_type |-> "TCP", hosts |-> PyList(<<"h1", "h2">>), monitor |-> EmptyDict],
      [monitor_type |-> "API", hosts |-> None, monitor |-> FullMonitor],
      [monitor_type |-> "API", hosts |-> None,
       monitor |-> [FullMonitor EXCEPT !.timeout = PyInt(5000)]],
      [monitor_type |-> "DNS", hosts |-> None,
       monitor |-> [FullMonitor EXCEPT !.values = TwoValues]],
      [monitor_type |-> "DNS", hosts |-> None,
       monitor |-> [FullMonitor EXCEPT !.values = TwoValuesSwapped]] }

DiffDescriptors ==
    { [ name |-> n, tag |-> t, status |-> s, cron |-> c, category_name |-> g,
        monitor_type |-> v.monitor_type, hosts |-> v.hosts, monitor |-> v.monitor,
        state |-> "present" ] :
      n \in {"Kener Monitor", "Web"}, t \in Tags, s \in MonitorStatuses,
      c \in {"* * * * *", "*/5 * * * *"}, g \in {"Home", "Ops"}, v \in DiffVariants }

\* the parameters in which two descriptors differ
Differing(d, e) ==
    {k \in {"name", "tag", "status", "cron", "category_name"} : d[k] # e[k]}
    \cup (IF d.monitor_type # e.monitor_type \/ d.hosts # e.hosts \/ d.monitor # e.monitor
          THEN {"variant"} ELSE {})

Drop(r, k) == [x \in DOMAIN r \ {k} |-> r[x]]
Truncated(t) == [isnull |-> FALSE, text |-> SubSeq(t.text, 1, Len(t.text) - 1)]

\* the remote records made of r
Mangle(r) ==
    {r, r @@ [created_at |-> "2024-01-01"],
     [r EXCEPT !.type_data = NullText],
     [r EXCEPT !.type_data = Truncated(r.type_data)]}
    \cup {Drop(r, k) : k \in DOMAIN r \ {"id"}}

InitDiff ==
    /\ store = <<>>
    /\ nextId = 1
    /\ passes = MaxPasses
    /\ pc = [p \in Procs |-> IF p = 1 THEN "compare" ELSE "idle"]
    /\ \E d \in DiffDescriptors, e \in DiffDescriptors :
          /\ Cardinality(Differing(d, e)) <= 1
          /\ params = [p \in Procs |-> IF p = 1 THEN d ELSE NoParams]
          /\ payload = [p \in Procs |-> IF p = 1 THEN build_payload(d).payload ELSE EmptyDict]
          /\ \E r \in Mangle(ServerRecord(build_payload(e).payload, 7)) :
                existing = [p \in Procs |-> IF p = 1 THEN ListValue(<<r>>) ELSE NoValue]
    /\ results = [p \in Procs |-> <<>>]
    /\ calls = [p \in Procs |-> <<>>]
    /\ prev = [p \in Procs |-> NoPrev]
    /\ before = [p \in Procs |-> <<>>]
    /\ diff = [p \in Procs |-> "none"]

\* is_changed(payload, existing[0])
Compare(p) ==
    /\ pc[p] = "compare"
    /\ diff' = [diff EXCEPT ![p] = is_changed(payload[p], Target(existing[p]))]
    /\ pc' = [pc EXCEPT ![p] = "compared"]
    /\ UNCHANGED <<store, nextId, passes, params, payload, existing, results, calls, prev,
                   before>>

NextDiff == Compare(1)

SpecDiff == InitDiff /\ [][NextDiff]_vars

\* key k of payload P has an equal value in record R, R's type_data decoded first
KeyEqual(P, R, k) ==
    /\ k \in DOMAIN R
    /\ IF k = "type_data"
       THEN loads(R.type_data).ok /\ loads(R.type_data).v = P.type_data
       ELSE R[k] = P[k]
\* R holds every key of P, and a type_data that decodes
Comparable(P, R) ==
    /\ \A k \in DOMAIN P : k \in DOMAIN R
    /\ "type_data" \in DOMAIN P => loads(R.type_data).ok

\* C11: when the remote record lacks a key that the payload declares, is_changed
\* returns true rather than failing.
C11_MissingKeyIsDifference ==
    \A p \in Procs :
        ( /\ pc[p] = "compared"
          /\ \E k \in DOMAIN payload[p] : k \notin DOMAIN Target(existing[p]) )
        => diff[p] = "true"

\* C11, as the code has it: with a key missing from the remote record is_changed
\* returns true only if an earlier key differs, and raises KeyError otherwise.
C11_MissingKeyRaises ==
    \A p \in Procs :
        ( /\ pc[p] = "compared"
          /\ \E k \in DOMAIN payload[p] : k \notin DOMAIN Target(existing[p]) )
        => diff[p] \in {"true", "KeyError"}

\* C12: when every key of the payload equals the value the remote record holds for
\* it (type_data decoded first), is_changed returns false, whatever keys of its own
\* (id, ...) the remote record carries.
C12_NoOpPrecision ==
    \A p \in Procs :
        ( /\ pc[p] = "compared"
          /\ \A k \in DOMAIN payload[p] : KeyEqual(payload[p], Target(existing[p]), k) )
        => diff[p] = "false"

C12_Witness ==
    /\ pc[1] = "compared"
    /\ \A k \in DOMAIN payload[1] : KeyEqual(payload[1], Target(existing[1]), k)
    /\ {"id", "created_at"} \subseteq DOMAIN Target(existing[1])
    /\ payload[1].monitor_type = "DNS"
    /\ payload[1].type_data.values = TwoValues
    /\ diff[1] = "false"

\* C13: when the payload differs from a remote record that holds all its keys in the
\* value of a top-level key (name, tag, status, cron, category_name, monitor_type or
\* type_data, the order of a list inside type_data included), is_changed returns true.
C13_DiffSensitivity ==
    \A p \in Procs :
        ( /\ pc[p] = "compared"
          /\ Comparable(payload[p], Target(existing[p]))
          /\ \E k \in DOMAIN payload[p] : ~KeyEqual(payload[p], Target(existing[p]), k) )
        => diff[p] = "true"

C13_Witness ==
    /\ pc[1] = "compared"
    /\ Comparable(payload[1], Target(existing[1]))
    /\ \A k \in DOMAIN payload[1] \ {"type_data"} :
          KeyEqual(payload[1], Target(existing[1]), k)
    /\ payload[1].type_data = [hosts |-> PyList(<<"h1", "h2">>)]
    /\ loads(Target(existing[1]).type_data).v = [hosts |-> PyList(<<"h2", "h1">>)]
    /\ diff[1] = "true"

(***************************************************************************)
(* One pass against a remote store that other clients of the remote        *)
(* service have filled: one or two records, with a tag held twice, a key   *)
(* missing, or a type_data that is null or no JSON object.                 *)
(***************************************************************************)
StoredDescriptors ==
    {d \in Descriptors :
        /\ d.status = "ACTIVE" /\ d.state = "present"
        /\ \/ d.monitor_type = "PING" /\ d.hosts = PyList(<<"h1">>)
           \/ d.monitor_type = "API" /\ d.monitor = FullMonitor}

StoredRecords(id) ==
    UNION { LET r == ServerRecord(build_payload(d).payload, id)
            IN  {r, [r EXCEPT !.type_data = NullText],
                 [r EXCEPT !.type_data = Truncated(r.type_data)], Drop(r, "cron")} :
            d \in StoredDescriptors }

RemoteStores ==
    {<<r>> : r \in StoredRecords(1)}
    \cup {<<r, q>> : r \in StoredRecords(1), q \in StoredRecords(2)}

InitRemote ==
    /\ store \in RemoteStores
    /\ nextId = 3
    /\ passes = MaxPasses - 1
    /\ pc = [p \in Procs |-> "idle"]
    /\ params = [p \in Procs |-> NoParams]
    /\ payload = [p \in Procs |-> EmptyDict]
    /\ existing = [p \in Procs |-> NoValue]
    /\ results = [p \in Procs |-> <<>>]
    /\ calls = [p \in Procs |-> <<>>]
    /\ prev = [p \in Procs |-> NoPrev]
    /\ before = [p \in Procs |-> <<>>]
    /\ diff = [p \in Procs |-> "none"]

SpecRemote == InitRemote /\ [][Next]_vars

\* the pass ended in an error: fail_json, or an exception nothing catches
Errored(p) ==
    \/ pc[p] = "crashed" /\ results[p] = <<>>
    \/ pc[p] = "done" /\ Len(results[p]) = 1 /\ results[p][1].kind = "failed"

\* the diff of p's pass reaches the decoding of a type_data that does not decode
DecodeFails(p) ==
    /\ params[p].state = "present"
    /\ LookedUp(p) /\ Found(existing[p])
    /\ \A k \in DOMAIN Desired(p) \ {"type_data"} :
          KeyEqual(Desired(p), existing[p].list[1], k)
    /\ "type_data" \in DOMAIN existing[p].list[1]
    /\ ~loads(existing[p].list[1].type_data).ok

C16_FirstMatchIsAuthoritative ==
    \A p \in Procs :
        (LookedUp(p) /\ Len(existing[p].list) > 1)
        => LET first == ServerGet(before[p], params[p].tag)[1]
           IN  /\ params[p].state = "present" => diff[p] = is_changed(Desired(p), first)
               /\ \A i \in 1..Len(calls[p]) :
                     Mutating(calls[p][i]) =>
                        /\ calls[p][i].method \in {"PUT", "DELETE"}
                        /\ calls[p][i].id = first.id
               /\ SelectSeq(store, LAMBDA r : r.id # first.id)
                     = SelectSeq(before[p], LAMBDA r : r.id # first.id)

C16_Witness ==
    /\ pc[1] = "done" /\ LookedUp(1) /\ Len(existing[1].list) = 2
    /\ Methods(calls[1]) = <<"GET", "PUT">> /\ calls[1][2].status = 200
    /\ calls[1][2].id = 1
    /\ store[2] = before[1][2] /\ store[1] # before[1][1]
    /\ is_changed(Desired(1), before[1][2]) = "false"

\* what the remote service sends along with an error status
ErrorBody(status) == IF status >= 400 THEN "Internal Server Error" ELSE ""

Elements(msg) == {msg[i] : i \in 1..Len(msg)}

\* C15: in every pass the first remote call is the GET lookup by the pass's tag, at
\* most one mutating call (POST, PUT or DELETE) follows it, no mutating call comes
\* first or without the lookup, a call that failed is not made again, and the pass
\* makes no more than the stated maximum of calls.
C15_CallSequenceNoRetry ==
    \A p \in Procs :
        /\ Methods(calls[p]) \in {<<>>, <<"GET">>, <<"GET", "POST">>,
                                  <<"GET", "PUT">>, <<"GET", "DELETE">>}
        /\ Len(calls[p]) <= 3
        /\ Len(calls[p]) >= 1 => calls[p][1].tag = params[p].tag
        /\ \A i \in 1..Len(calls[p]) : Refused(calls[p][i]) => i = Len(calls[p])

C15_Witness ==
    /\ pc[1] = "done"
    /\ Methods(calls[1]) = <<"GET", "POST">>
    /\ calls[1][1].status = 200 /\ Refused(calls[1][2])
    /\ Len(results[1]) = 1 /\ results[1][1].kind = "failed"

C17_ErrorCarriesStatus ==
    \A p \in Procs :
        (Len(calls[p]) >= 1 /\ Refused(calls[p][Len(calls[p])]))
        => LET c == calls[p][Len(calls[p])]
           IN  /\ Len(results[p]) = 1 /\ results[p][1].kind = "failed"
               /\ results[p][1].msg = <<"API error:", ToString(c.status)>>

OtherTags(st, t) == SelectSeq(st, LAMBDA r : r.tag # t)

\* C18: a pass for tag t, present or absent, successful or failed, creates,
\* modifies and deletes no remote record whose tag differs from t.
C18_FrameOnOtherTags ==
    \A p \in Procs :
        pc[p] # "idle"
        => /\ OtherTags(store, params[p].tag) = OtherTags(before[p], params[p].tag)
           /\ \A i \in 1..Len(calls[p]) : calls[p][i].tag = params[p].tag

C18_Witness ==
    /\ pc[1] = "done"
    /\ OtherTags(before[1], params[1].tag) # <<>>
    /\ Methods(calls[1]) = <<"GET", "POST">> /\ calls[1][2].status = 200
    /\ store # before[1]

(***************************************************************************)
(* Passes one after the other with every remote call answered 200, from a  *)
(* store that holds at most one record per tag.                            *)
(***************************************************************************)
StoredRecord(d, id) == ServerRecord(build_payload(d).payload, id)

OkStores ==
    {<<>>}
    \cup {<<StoredRecord(d, 1)>> : d \in StoredDescriptors}
    \cup {<<StoredRecord(d, 1), StoredRecord(e, 2)>> :
            d \in {x \in StoredDescriptors : x.tag = "t1"},
            e \in {x \in StoredDescriptors : x.tag = "t2"}}

InitOk ==
    /\ store \in OkStores
    /\ nextId = 3
    /\ passes = 0
    /\ pc = [p \in Procs |-> "idle"]
    /\ params = [p \in Procs |-> NoParams]
    /\ payload = [p \in Procs |-> EmptyDict]
    /\ existing = [p \in Procs |-> NoValue]
    /\ results = [p \in Procs |-> <<>>]
    /\ calls = [p \in Procs |-> <<>>]
    /\ prev = [p \in Procs |-> NoPrev]
    /\ before = [p \in Procs |-> <<>>]
    /\ diff = [p \in Procs |-> "none"]

NextOk ==
    \/ \E prm \in Descriptors : Invoke(1, prm)
    \/ Build(1)
    \/ Lookup(1, 200)
    \/ Put(1, 200)
    \/ Post(1, 200)
    \/ Delete(1, 200)

SpecOk == InitOk /\ [][NextOk]_vars

\* the pass of p ended with exit_json
Succeeded(p) ==
    /\ pc[p] = "done" /\ Len(results[p]) = 1
    /\ results[p][1].kind \in {"changed", "unchanged"}

\* C19: from a store holding at most one record per tag, passes run one after the
\* other with every remote call succeeding leave at most one record per tag, and
\* after a successful absent pass for a tag the store holds no record with it.
C19_SequentialTagUniqueness ==
    /\ \A t \in Tags : Len(ServerGet(store, t)) <= 1
    /\ \A p \in Procs :
          (Succeeded(p) /\ params[p].state = "absent")
          => ServerGet(store, params[p].tag) = <<>>

C19_Witness ==
    /\ passes = 2 /\ prev[1].valid
    /\ prev[1].params.state = "present" /\ prev[1].params.tag = params[1].tag
    /\ Methods(prev[1].calls) = <<"GET", "POST">>
    /\ Succeeded(1) /\ params[1].state = "absent"
    /\ Methods(calls[1]) = <<"GET", "DELETE">>
    /\ ServerGet(store, params[1].tag) = <<>>
    /\ store # <<>>

(***************************************************************************)
(* Two passes for the same tag running at once, their steps interleaved in *)
(* any order, against a store with at most one record of that tag.         *)
(***************************************************************************)
SharedTag == "t1"

ConcDescriptors ==
    {d \in Descriptors : d.tag = SharedTag /\ d.state \in {"present", "absent"}}

ConcStores ==
    {<<>>} \cup {<<StoredRecord(d, 1)>> : d \in {x \in StoredDescriptors : x.tag = SharedTag}}

InitConc ==
    /\ store \in ConcStores
    /\ nextId = 2
    /\ passes = MaxPasses
    /\ pc = [p \in Procs |-> "start"]
    /\ params \in [Procs -> ConcDescriptors]
    /\ payload = [p \in Procs |-> EmptyDict]
    /\ existing = [p \in Procs |-> NoValue]
    /\ results = [p \in Procs |-> <<>>]
    /\ calls = [p \in Procs |-> <<>>]
    /\ prev = [p \in Procs |-> NoPrev]
    /\ before = [p \in Procs |-> store]
    /\ diff = [p \in Procs |-> "none"]

NextConc == \E p \in Procs : Step(p)

SpecConc == InitConc /\ [][NextConc]_vars

BothFinished == \A p \in Procs : pc[p] \in Terminal

\* the passes whose lookup came back with no record
EmptyLookups ==
    {p \in Procs : Len(calls[p]) >= 1 /\ existing[p].list = <<>>}

\* C20: after two interleaved passes for the same tag, started on a store with at
\* most one record of that tag, the store holds at most one record with that tag.
C20_InterleavedTagUniqueness ==
    BothFinished => Len(ServerGet(store, SharedTag)) <= 1

\* C20, amended: the interleaved passes add at most one record with the tag for each
\* pass whose lookup came back with no record; a pass whose lookup returned a record
\* creates none.
C20_OneCreatePerEmptyLookup ==
    /\ Len(ServerGet(store, SharedTag))
          <= Len(ServerGet(before[1], SharedTag)) + Cardinality(EmptyLookups)
    /\ \A p \in Procs :
          (Len(calls[p]) >= 1 /\ existing[p].list # <<>>)
          => \A i \in 1..Len(calls[p]) : calls[p][i].method # "POST"

C20_Witness ==
    /\ BothFinished
    /\ before[1] = <<>>
    /\ \A p \in Procs :
          /\ Methods(calls[p]) = <<"GET", "POST">>
          /\ calls[p][1].status = 200 /\ calls[p][2].status = 200
    /\ Len(ServerGet(store, SharedTag)) = 2

====
